---------------------------- MODULE Spec2Model ----------------------------
(***************************************************************************)
(* Caption segmentation and timeline construction of the trivia video      *)
(* generator (src/main.py create_trivia_video, src/mmain.py                *)
(* create_text_image).                                                     *)
(*                                                                         *)
(* Text is a sequence of one-character strings.  Times are integers in     *)
(* milliseconds; a duration d is held as the numerator of d / den, where   *)
(* den is 1 until the proportional trimming divides by adj_total, so the   *)
(* arithmetic of the trimming is exact (the code uses binary floats, whose *)
(* rounding error is many orders below every tolerance used here).         *)
(***************************************************************************)
EXTENDS Integers, Sequences, FiniteSets, TLC

VARIABLES
    pc,                 \* position in the program
    text,               \* fact_text (main.py) / text (mmain.py)
    font,               \* the width function: per-character advance widths
    max_width,          \* main.py:947, mmain.py:45
    words,              \* main.py:949, mmain.py:46
    k,                  \* index of the next word of the wrapping loop
    current_line,       \* main.py:951, a list of words
    line,               \* mmain.py:48, a string
    lines,              \* main.py:950, mmain.py:47
    pages,              \* main.py:963
    audio_duration,     \* main.py:969
    segments,           \* main.py:992
    per_page_durations, \* main.py:993, numerators over den
    den,                \* common denominator of the durations
    aeneas_starts,      \* main.py:994
    video_starts,       \* main.py:1015
    i,                  \* loop index of the parse and correction loops
    entry_durations,    \* per_page_durations when main.py:1036 is reached
    excess,             \* main.py:1041
    adj_total,          \* main.py:1044
    clips,              \* main.py:1085, the clip durations
    clip_starts,        \* start of each clip in the concatenation, main.py:1161
    cpc,                \* mmain.py create_trivia_video: position of each call
    bucket,             \* mmain.py:75, bucket_name of each call
    tmp_background,     \* the file <tmp>/background.jpg, mmain.py:79
    tmp_narration,      \* the file <tmp>/narration.mp3, mmain.py:88
    tmp_video,          \* the file <tmp>/trivia.mp4, mmain.py:113
    blob_narration,     \* the blob narration.mp3 of each bucket, mmain.py:84
    bg_used,            \* the background each call loaded, mmain.py:96
    audio_used,         \* the narration each call loaded, mmain.py:91
    uploaded,           \* the video each call uploaded, mmain.py:117
    fpc,                \* get_dynamic_fact: position
    generator,          \* "tech": get_dynamic_fact, "kk": get_dynamic_fact_JINJA
    responses,          \* what the model answers to the prompt of each source
    sources,            \* main.py:207-208
    src_idx,            \* index of the loop of main.py:218
    tried,              \* the sources the model was called for, in order
    fact_result,        \* the returned (fact, label)
    seen_facts,         \* _seen_facts, main.py:48
    checked_firestore,  \* _checked_firestore, main.py:49
    facts_history,      \* the documents of the collection facts_history
    load_calls,         \* calls of load_seen_facts_from_firestore so far
    read_calls,         \* which of these calls streamed the collection
    read_outcome,       \* how the stream of main.py:74-78 ended
    fact,               \* is_duplicate_fact: the argument of the last call
    ret,                \* is_duplicate_fact: what the last call returned
    seen_before,        \* _seen_facts when the last call began
    seen_loaded,        \* _seen_facts after main.py:149 of the last call
    history_before,     \* the collection when the last call began
    calls,              \* calls made in this runtime
    reported,           \* the normalized facts is_duplicate_fact reported new
    upc,                \* get_unique_fact: position
    ytdest,             \* get_unique_fact: the argument
    recent,             \* main.py:179
    attempt,            \* the iteration of the loop of main.py:180
    generator_calls,    \* calls of get_dynamic_fact or get_dynamic_fact_JINJA
    checked_attempts,   \* generated facts passed to is_duplicate_fact
    unique_result,      \* the returned (fact, source_code)
    history_at_entry,   \* the collection when get_unique_fact was called
    add_failed,         \* the Firestore client raised on an add in this call
    ipc,                \* generate_gemini_tech_image: position
    max_retries,        \* generate_gemini_tech_image: the argument
    img_attempt,        \* the attempt of the loop of main.py:653
    image_outcomes,     \* how each call of the image model ended
    bg_path,            \* the attempt number in the returned path
    epc,                \* generate_endpoint: position
    estep,              \* the step of the running pipeline
    request_fact,       \* data.get("fact") of the request
    locals,             \* fact, video_https_url, video_id of main.py:1176-1207
    tech_result,        \* the result the tech pipeline produced
    main_result,        \* main.py:1209-1213
    qq_result,          \* main.py:1251-1260
    http_response,      \* what generate_endpoint returned
    kk_started,         \* the try block of main.py:1216 was entered
    failed_in           \* the pipeline a step of which raised

wrapVars == <<text, font, max_width, words, k, current_line, line, lines, pages>>
timingVars == <<audio_duration, segments, per_page_durations, den,
                aeneas_starts, video_starts, i, entry_durations, excess,
                adj_total, clips, clip_starts>>
captionVars == <<pc, wrapVars, timingVars>>
concVars == <<cpc, bucket, tmp_background, tmp_narration, tmp_video,
              blob_narration, bg_used, audio_used, uploaded>>
factVars == <<fpc, generator, responses, sources, src_idx, tried, fact_result>>
dedupVars == <<seen_facts, checked_firestore, facts_history, load_calls, read_calls,
               read_outcome, fact, ret, seen_before, seen_loaded, history_before,
               calls, reported>>
uniqueVars == <<upc, ytdest, recent, attempt, generator_calls, checked_attempts,
                unique_result, history_at_entry, add_failed>>
imageVars == <<ipc, max_retries, img_attempt, image_outcomes, bg_path>>
endpointVars == <<epc, estep, request_fact, locals, tech_result, main_result, qq_result,
                  http_response,
                  kk_started, failed_in>>
restVars == <<uniqueVars, imageVars, endpointVars>>
otherVars == <<concVars, factVars, dedupVars, restVars>>
vars == <<captionVars, otherVars>>

----------------------------------------------------------------------------
(* Bounds of the model *)

MaxLen == 5      \* longest text given to the splitters
MaxCharW == 2    \* widest advance of the letter "b"
MaxWidth == 3    \* largest max_width given to the splitters
MaxWords == 5    \* most words of a narrated fact in the timing runs

(* Program constants, in milliseconds *)

FLOOR == 50          \* 0.05
TOLERANCE == 30      \* 0.03
EPSILON == 1         \* 0.001 (main.py:1039) and 1e-3 (main.py:1156)
FALLBACK == 1000     \* 1.0
LINES_PER_PAGE == 2

(* Inputs of the aligner and of the speech synthesis *)

Begins == {0, 90, 200}
Ends == {20, 60, 200}
AudioDurations == {0, 59, 60, 200, 700}

----------------------------------------------------------------------------
(* Strings *)

SP == " "
NL == "\n"
Chars == {"a", "b", SP, NL}

IsSpace(c) == c \in {SP, NL}

Max(a, b) == IF a >= b THEN a ELSE b

RECURSIVE SumSeq(_)
SumSeq(s) == IF s = <<>> THEN 0 ELSE Head(s) + SumSeq(Tail(s))

RECURSIVE Flatten(_)
Flatten(ss) == IF ss = <<>> THEN <<>> ELSE Head(ss) \o Flatten(Tail(ss))

\* str.split(): maximal runs of non-whitespace characters
RECURSIVE SplitWsAcc(_, _, _)
SplitWsAcc(s, cur, acc) ==
    IF s = <<>> THEN (IF cur = <<>> THEN acc ELSE Append(acc, cur))
    ELSE IF IsSpace(Head(s))
         THEN SplitWsAcc(Tail(s), <<>>, IF cur = <<>> THEN acc ELSE Append(acc, cur))
         ELSE SplitWsAcc(Tail(s), Append(cur, Head(s)), acc)

SplitWhitespace(s) == SplitWsAcc(s, <<>>, <<>>)

\* str.split(" "): every single space separates, empty pieces are kept
RECURSIVE SplitSpAcc(_, _, _)
SplitSpAcc(s, cur, acc) ==
    IF s = <<>> THEN Append(acc, cur)
    ELSE IF Head(s) = SP
         THEN SplitSpAcc(Tail(s), <<>>, Append(acc, cur))
         ELSE SplitSpAcc(Tail(s), Append(cur, Head(s)), acc)

SplitSpace(s) == SplitSpAcc(s, <<>>, <<>>)

\* sep.join(ss)
RECURSIVE Join(_, _)
Join(ss, sep) ==
    IF ss = <<>> THEN <<>>
    ELSE IF Len(ss) = 1 THEN Head(ss)
    ELSE Head(ss) \o <<sep>> \o Join(Tail(ss), sep)

RECURSIVE LStrip(_)
LStrip(s) == IF s # <<>> /\ IsSpace(Head(s)) THEN LStrip(Tail(s)) ELSE s

RECURSIVE RStrip(_)
RStrip(s) ==
    IF s # <<>> /\ IsSpace(s[Len(s)]) THEN RStrip(SubSeq(s, 1, Len(s) - 1)) ELSE s

\* str.strip()
Strip(s) == RStrip(LStrip(s))

\* the advance of one character under the font
CharWidth(c) == IF c = "a" THEN 1 ELSE IF c = "b" THEN font.b ELSE font.ws

\* the width the drawing library reports for s: text holding line breaks is
\* measured as multi-line text, whose width is that of its widest line
RECURSIVE MeasureAcc(_, _, _)
MeasureAcc(s, cur, best) ==
    IF s = <<>> THEN Max(cur, best)
    ELSE IF Head(s) = NL
         THEN MeasureAcc(Tail(s), 0, Max(cur, best))
         ELSE MeasureAcc(Tail(s), cur + CharWidth(Head(s)), best)

Measure(s) == MeasureAcc(s, 0, 0)

FitsLoose(test_line) == Measure(test_line) <= max_width + 1

FitsStrict(test_line) == Measure(test_line) < max_width

\* main.py:955, mmain.py:52
Fits(test_line) == Measure(test_line) <= max_width

----------------------------------------------------------------------------
(* Line wrapping and paging of main.py *)

\* main.py:949-951
SplitText ==
    /\ pc = "split"
    /\ words' = SplitWhitespace(text)
    /\ lines' = <<>>
    /\ current_line' = <<>>
    /\ k' = 1
    /\ pc' = "wrap"
    /\ UNCHANGED <<otherVars, text, font, max_width, line, pages, timingVars>>

NextLineDropped(word) == <<>>

\* main.py:959
NextLine(word) == <<word>>

\* main.py:952-959, one iteration
WrapWord ==
    /\ pc = "wrap"
    /\ k <= Len(words)
    /\ LET word == words[k]
           test_line == Join(Append(current_line, word), SP)
       IN IF Fits(test_line)
          THEN /\ current_line' = Append(current_line, word)
               /\ lines' = lines
          ELSE /\ lines' = Append(lines, Join(current_line, SP))
               /\ current_line' = NextLine(word)
    /\ k' = k + 1
    /\ UNCHANGED <<otherVars, pc, text, font, max_width, words, line, pages, timingVars>>

GroupPagesOverlapping(ls) ==
    [p \in 1..((Len(ls) + LINES_PER_PAGE - 1) \div LINES_PER_PAGE) |->
        Join(SubSeq(ls, LINES_PER_PAGE * (p - 1) + 1,
                    IF LINES_PER_PAGE * p + 1 <= Len(ls)
                    THEN LINES_PER_PAGE * p + 1 ELSE Len(ls)),
             NL)]

\* main.py:963
GroupPages(ls) ==
    [p \in 1..((Len(ls) + LINES_PER_PAGE - 1) \div LINES_PER_PAGE) |->
        Join(SubSeq(ls, LINES_PER_PAGE * (p - 1) + 1,
                    IF LINES_PER_PAGE * p <= Len(ls) THEN LINES_PER_PAGE * p ELSE Len(ls)),
             NL)]

\* main.py:960-963
WrapFlush ==
    /\ pc = "wrap"
    /\ k > Len(words)
    /\ LET all == IF current_line # <<>>
                  THEN Append(lines, Join(current_line, SP))
                  ELSE lines
       IN /\ lines' = all
          /\ pages' = GroupPages(all)
    /\ pc' = "tts"
    /\ UNCHANGED <<otherVars, text, font, max_width, words, k, current_line, line, timingVars>>

----------------------------------------------------------------------------
(* Line wrapping of mmain.py create_text_image *)

\* mmain.py:45-48
ImageSplitText ==
    /\ pc = "image_split"
    /\ words' = SplitSpace(text)
    /\ lines' = <<>>
    /\ line' = <<>>
    /\ k' = 1
    /\ pc' = "image_wrap"
    /\ UNCHANGED <<otherVars, text, font, max_width, current_line, pages, timingVars>>

\* mmain.py:49-56, one iteration
ImageWrapWord ==
    /\ pc = "image_wrap"
    /\ k <= Len(words)
    /\ LET word == words[k]
           test_line == Strip(line \o <<SP>> \o word)
       IN IF Fits(test_line)
          THEN /\ line' = test_line
               /\ lines' = lines
          ELSE /\ lines' = Append(lines, line)
               /\ line' = word
    /\ k' = k + 1
    /\ UNCHANGED <<otherVars, pc, text, font, max_width, words, current_line, pages, timingVars>>

\* mmain.py:57
ImageWrapFlush ==
    /\ pc = "image_wrap"
    /\ k > Len(words)
    /\ lines' = Append(lines, line)
    /\ pc' = "image_draw"
    /\ UNCHANGED <<otherVars, text, font, max_width, words, k, current_line, line, pages, timingVars>>

----------------------------------------------------------------------------
(* Timing of main.py create_trivia_video *)

Fragments == [begin : Begins, end : Ends]

SegmentLists(n) == UNION {[1..m -> Fragments] : m \in 0..n}

\* the start of each entry when the entries are laid end to end
RunningStarts(d) == [j \in 1..Len(d) |-> SumSeq(SubSeq(d, 1, j - 1))]

\* main.py:965-992: the synthesis fixes the audio length, the aligner
\* returns any number of fragments
Align ==
    /\ pc = "tts"
    /\ audio_duration' \in AudioDurations
    /\ segments' \in SegmentLists(Len(pages) + 1)
    /\ per_page_durations' = <<>>
    /\ aeneas_starts' = <<>>
    /\ i' = 1
    /\ pc' = "parse"
    /\ UNCHANGED <<otherVars, wrapVars, den, video_starts, entry_durations, excess,
                   adj_total, clips, clip_starts>>

ParseDurUnfloored(start, end) == end - start

\* main.py:999
ParseDur(start, end) == Max(FLOOR, end - start)

FallbackStartAll(durs) == SumSeq(durs)

\* main.py:1005, durs being the list after the append of main.py:1004
FallbackStart(durs) == SumSeq(SubSeq(durs, 1, Len(durs) - 1))

HasFragmentButLast(idx, segs) == idx < Len(segs)

\* main.py:996, idx counting the pages from 1
HasFragment(idx, segs) == idx <= Len(segs)

\* main.py:995-1005, one iteration
ParsePage ==
    /\ pc = "parse"
    /\ i <= Len(pages)
    /\ IF HasFragment(i, segments)
       THEN LET start == segments[i].begin
                end == segments[i].end
            IN /\ per_page_durations' = Append(per_page_durations, ParseDur(start, end))
               /\ aeneas_starts' = Append(aeneas_starts, start)
       ELSE /\ per_page_durations' = Append(per_page_durations, FALLBACK)
            /\ aeneas_starts' = Append(aeneas_starts, FallbackStart(per_page_durations'))
    /\ i' = i + 1
    /\ UNCHANGED <<otherVars, pc, wrapVars, audio_duration, segments, den, video_starts,
                   entry_durations, excess, adj_total, clips, clip_starts>>

\* main.py:1014-1019
InitStarts ==
    /\ pc = "parse"
    /\ i > Len(pages)
    /\ video_starts' = RunningStarts(per_page_durations)
    /\ i' = 2
    /\ pc' = "correct"
    /\ UNCHANGED <<otherVars, wrapVars, audio_duration, segments, per_page_durations, den,
                   aeneas_starts, entry_durations, excess, adj_total, clips,
                   clip_starts>>

StaleStarts(old, d) == old

\* main.py:1029-1033
RecomputeStarts(old, d) == RunningStarts(d)

ExtendNever(d, delta) == Max(FLOOR, d)

\* main.py:1027
Extend(d, delta) == Max(FLOOR, d + delta)

\* main.py:1022-1033, one iteration
CorrectPage ==
    /\ pc = "correct"
    /\ i <= Len(pages)
    /\ LET delta == aeneas_starts[i] - video_starts[i]
       IN IF delta > TOLERANCE
          THEN /\ per_page_durations' =
                     [per_page_durations EXCEPT ![i - 1] = Extend(@, delta)]
               /\ video_starts' = RecomputeStarts(video_starts, per_page_durations')
          ELSE UNCHANGED <<per_page_durations, video_starts>>
    /\ i' = i + 1
    /\ UNCHANGED <<otherVars, pc, wrapVars, audio_duration, segments, den, aeneas_starts,
                   entry_durations, excess, adj_total, clips, clip_starts>>

AddShortfallFirst(d, audio, total) == [d EXCEPT ![1] = @ + (audio - total)]

\* main.py:1038
AddShortfall(d, audio, total) == [d EXCEPT ![Len(d)] = @ + (audio - total)]

\* main.py:1036-1038; per_page_durations[-1] of an empty list raises IndexError
Shortfall ==
    /\ pc = "correct"
    /\ i > Len(pages)
    /\ LET total_video_len == SumSeq(per_page_durations)
       IN /\ total_video_len < audio_duration
          /\ IF per_page_durations = <<>>
             THEN /\ pc' = "IndexError"
                  /\ UNCHANGED per_page_durations
             ELSE /\ per_page_durations' =
                        AddShortfall(per_page_durations, audio_duration, total_video_len)
                  /\ pc' = "clips"
    /\ entry_durations' = per_page_durations
    /\ UNCHANGED <<otherVars, wrapVars, audio_duration, segments, den, aeneas_starts,
                   video_starts, i, excess, adj_total, clips, clip_starts>>

\* main.py:1044
AdjTotal(d) ==
    SumSeq([j \in 1..(Len(d) - 1) |-> IF d[j] > FLOOR THEN d[j] - FLOOR ELSE 0])

\* main.py:1036-1045 when the total overshoots; from here on the durations
\* are numerators over den = adj_total
Overshoot ==
    /\ pc = "correct"
    /\ i > Len(pages)
    /\ LET total_video_len == SumSeq(per_page_durations)
       IN /\ ~(total_video_len < audio_duration)
          /\ total_video_len > audio_duration + EPSILON
          /\ Len(per_page_durations) > 1
          /\ excess' = total_video_len - audio_duration
    /\ adj_total' = AdjTotal(per_page_durations)
    /\ IF adj_total' > 0
       THEN /\ den' = adj_total'
            /\ per_page_durations' =
                   [j \in 1..Len(per_page_durations) |-> per_page_durations[j] * adj_total']
            /\ i' = 1
            /\ pc' = "trim"
       ELSE /\ pc' = "clips"
            /\ UNCHANGED <<den, per_page_durations, i>>
    /\ entry_durations' = per_page_durations
    /\ UNCHANGED <<otherVars, wrapVars, audio_duration, segments, aeneas_starts,
                   video_starts, clips, clip_starts>>

\* main.py:1036-1039 when neither branch is taken
Balanced ==
    /\ pc = "correct"
    /\ i > Len(pages)
    /\ LET total_video_len == SumSeq(per_page_durations)
       IN /\ ~(total_video_len < audio_duration)
          /\ ~(total_video_len > audio_duration + EPSILON /\ Len(per_page_durations) > 1)
    /\ entry_durations' = per_page_durations
    /\ pc' = "clips"
    /\ UNCHANGED <<otherVars, wrapVars, audio_duration, segments, per_page_durations, den,
                   aeneas_starts, video_starts, i, excess, adj_total, clips,
                   clip_starts>>

TakeWholeDuration(d) == (d \div den) * excess

\* main.py:1048: (d - 0.05) / adj_total * excess, as a numerator over den
Take(d) == ((d - FLOOR * den) \div den) * excess

\* main.py:1046-1049, one iteration
TrimPage ==
    /\ pc = "trim"
    /\ i <= Len(per_page_durations) - 1
    /\ IF per_page_durations[i] > FLOOR * den
       THEN LET take == Take(per_page_durations[i])
            IN per_page_durations' =
                   [per_page_durations EXCEPT ![i] = Max(FLOOR * den, @ - take)]
       ELSE UNCHANGED per_page_durations
    /\ i' = i + 1
    /\ UNCHANGED <<otherVars, pc, wrapVars, audio_duration, segments, den, aeneas_starts,
                   video_starts, entry_durations, excess, adj_total, clips,
                   clip_starts>>

\* main.py:1050-1053
FinalSafety ==
    /\ pc = "trim"
    /\ i > Len(per_page_durations) - 1
    /\ LET total_video_len == SumSeq(per_page_durations)
       IN IF total_video_len > audio_duration * den
          THEN per_page_durations' =
                   [per_page_durations EXCEPT ![Len(per_page_durations)] =
                        Max(FLOOR * den, @ - (total_video_len - audio_duration * den))]
          ELSE UNCHANGED per_page_durations
    /\ pc' = "clips"
    /\ UNCHANGED <<otherVars, wrapVars, audio_duration, segments, den, aeneas_starts,
                   video_starts, i, entry_durations, excess, adj_total, clips,
                   clip_starts>>

MakeClipsButLast ==
    /\ pc = "clips"
    /\ clips' = SubSeq(per_page_durations, 1, Len(per_page_durations) - 1)
    /\ pc' = "safety"
    /\ UNCHANGED <<otherVars, wrapVars, audio_duration, segments, per_page_durations, den,
                   aeneas_starts, video_starts, i, entry_durations, excess,
                   adj_total, clip_starts>>

\* main.py:1085-1152: one clip per (page, duration) pair
MakeClips ==
    /\ pc = "clips"
    /\ clips' = SubSeq(per_page_durations, 1,
                       IF Len(pages) <= Len(per_page_durations)
                       THEN Len(pages) ELSE Len(per_page_durations))
    /\ pc' = "safety"
    /\ UNCHANGED <<otherVars, wrapVars, audio_duration, segments, per_page_durations, den,
                   aeneas_starts, video_starts, i, entry_durations, excess,
                   adj_total, clip_starts>>

\* main.py:1154-1159
ClipSafety ==
    /\ pc = "safety"
    /\ LET total_video_len == SumSeq(clips)
       IN IF total_video_len < (audio_duration - EPSILON) * den /\ Len(clips) > 0
          THEN clips' = [clips EXCEPT ![Len(clips)] =
                             @ + (audio_duration * den - total_video_len)]
          ELSE UNCHANGED clips
    /\ pc' = "concat"
    /\ UNCHANGED <<otherVars, wrapVars, audio_duration, segments, per_page_durations, den,
                   aeneas_starts, video_starts, i, entry_durations, excess,
                   adj_total, clip_starts>>

\* main.py:1161: concatenate_videoclips plays the clips end to end and
\* raises on an empty list
Concatenate ==
    /\ pc = "concat"
    /\ IF clips = <<>>
       THEN /\ pc' = "ConcatError"
            /\ UNCHANGED clip_starts
       ELSE /\ clip_starts' = RunningStarts(clips)
            /\ pc' = "done"
    /\ UNCHANGED <<otherVars, wrapVars, audio_duration, segments, per_page_durations, den,
                   aeneas_starts, video_starts, i, entry_durations, excess,
                   adj_total, clips>>

----------------------------------------------------------------------------
(* Concurrent calls of mmain.py create_trivia_video.  The request handler  *)
(* runs one call per request and the server runs requests concurrently.    *)
(* A file or blob holds the number of the call whose data it contains, 0   *)
(* when it does not exist.                                                 *)

Calls == {1, 2}
Buckets == {"b1", "b2"}

\* a video file that does not exist
NoVideo == [audio |-> 0, bg |-> 0]

\* mmain.py:79-80: the background is downloaded to the fixed temp path
DownloadBackground(c) ==
    /\ cpc[c] = "download_bg"
    /\ tmp_background' = c
    /\ cpc' = [cpc EXCEPT ![c] = "synthesize"]
    /\ UNCHANGED <<captionVars, factVars, dedupVars, restVars, bucket, tmp_narration, tmp_video, blob_narration,
                   bg_used, audio_used, uploaded>>

\* mmain.py:83-85: the narration is uploaded to the blob narration.mp3
SynthesizeTts(c) ==
    /\ cpc[c] = "synthesize"
    /\ blob_narration' = [blob_narration EXCEPT ![bucket[c]] = c]
    /\ cpc' = [cpc EXCEPT ![c] = "download_tts"]
    /\ UNCHANGED <<captionVars, factVars, dedupVars, restVars, bucket, tmp_background, tmp_narration, tmp_video,
                   bg_used, audio_used, uploaded>>

\* mmain.py:88-89: the blob is downloaded to the fixed temp path
DownloadNarration(c) ==
    /\ cpc[c] = "download_tts"
    /\ tmp_narration' = blob_narration[bucket[c]]
    /\ cpc' = [cpc EXCEPT ![c] = "load_audio"]
    /\ UNCHANGED <<captionVars, factVars, dedupVars, restVars, bucket, tmp_background, tmp_video, blob_narration,
                   bg_used, audio_used, uploaded>>

\* mmain.py:91-92
LoadAudio(c) ==
    /\ cpc[c] = "load_audio"
    /\ audio_used' = [audio_used EXCEPT ![c] = tmp_narration]
    /\ cpc' = [cpc EXCEPT ![c] = "load_bg"]
    /\ UNCHANGED <<captionVars, factVars, dedupVars, restVars, bucket, tmp_background, tmp_narration, tmp_video,
                   blob_narration, bg_used, uploaded>>

\* mmain.py:95-99
LoadBackground(c) ==
    /\ cpc[c] = "load_bg"
    /\ bg_used' = [bg_used EXCEPT ![c] = tmp_background]
    /\ cpc' = [cpc EXCEPT ![c] = "write_video"]
    /\ UNCHANGED <<captionVars, factVars, dedupVars, restVars, bucket, tmp_background, tmp_narration, tmp_video,
                   blob_narration, audio_used, uploaded>>

\* mmain.py:102-114: the text images have unique names; the video is
\* written to the fixed temp path
WriteVideo(c) ==
    /\ cpc[c] = "write_video"
    /\ tmp_video' = [audio |-> audio_used[c], bg |-> bg_used[c]]
    /\ cpc' = [cpc EXCEPT ![c] = "upload"]
    /\ UNCHANGED <<captionVars, factVars, dedupVars, restVars, bucket, tmp_background, tmp_narration,
                   blob_narration, bg_used, audio_used, uploaded>>

\* mmain.py:117: upload_from_filename raises when the file is gone
UploadVideo(c) ==
    /\ cpc[c] = "upload"
    /\ IF tmp_video = NoVideo
       THEN /\ cpc' = [cpc EXCEPT ![c] = "FileNotFoundError"]
            /\ UNCHANGED uploaded
       ELSE /\ uploaded' = [uploaded EXCEPT ![c] = tmp_video]
            /\ cpc' = [cpc EXCEPT ![c] = "cleanup"]
    /\ UNCHANGED <<captionVars, factVars, dedupVars, restVars, bucket, tmp_background, tmp_narration, tmp_video,
                   blob_narration, bg_used, audio_used>>

\* mmain.py:120-125: os.remove raises when the file is gone
Cleanup(c) ==
    /\ cpc[c] = "cleanup"
    /\ IF tmp_video = NoVideo
       THEN /\ cpc' = [cpc EXCEPT ![c] = "FileNotFoundError"]
            /\ UNCHANGED tmp_video
       ELSE /\ tmp_video' = NoVideo
            /\ cpc' = [cpc EXCEPT ![c] = "returned"]
    /\ UNCHANGED <<captionVars, factVars, dedupVars, restVars, bucket, tmp_background, tmp_narration,
                   blob_narration, bg_used, audio_used, uploaded>>

----------------------------------------------------------------------------
(* get_dynamic_fact and get_dynamic_fact_JINJA of main.py: the same loop   *)
(* over two prompts, with different prompts and fallback facts.            *)

SourceIds == {1, 2}

\* what generate_content can do: raise, return nothing, return a response
\* whose text is one of a few strings
ResponseTexts == {<<>>, <<SP>>, <<"a">>, <<SP, "a", NL>>, <<"b">>}

Responses == {[kind |-> "raise", text |-> <<>>], [kind |-> "none", text |-> <<>>]}
                 \cup {[kind |-> "text", text |-> t] : t \in ResponseTexts}

NoResult == [fact |-> <<>>, label |-> ""]

\* main.py:252-256, main.py:301-305
Honey(g) == IF g = "tech" THEN <<"a", SP, "b">> ELSE <<"b", SP, "a">>

\* main.py:209, main.py:264
SourceLabel(source) == IF source = 1 THEN "A" ELSE "B"

GeminiFactUnstripped(response) ==
    IF response.kind = "text" /\ response.text # <<>> THEN response.text ELSE <<>>

\* main.py:212-215, main.py:267-270, for a call that returns
GeminiFact(response) ==
    IF response.kind = "text" /\ response.text # <<>>
    THEN Strip(response.text)
    ELSE <<>>

\* main.py:207-208, main.py:262-263
ShuffleSources ==
    /\ fpc = "start"
    /\ sources' \in {<<1, 2>>, <<2, 1>>}
    /\ src_idx' = 1
    /\ fpc' = "loop"
    /\ UNCHANGED <<captionVars, concVars, dedupVars, restVars, generator, responses, tried, fact_result>>

\* main.py:218-249, main.py:273-298, one iteration
TrySource ==
    /\ fpc = "loop"
    /\ src_idx <= Len(sources)
    /\ LET source == sources[src_idx]
           label == SourceLabel(source)
       IN /\ tried' = Append(tried, source)
          /\ IF responses[source].kind = "raise"
             THEN /\ src_idx' = src_idx + 1
                  /\ UNCHANGED <<fpc, fact_result>>
             ELSE LET text_ == GeminiFact(responses[source])
                  IN IF text_ # <<>>
                     THEN /\ fact_result' = [fact |-> text_, label |-> label]
                          /\ fpc' = "returned"
                          /\ UNCHANGED src_idx
                     ELSE /\ src_idx' = src_idx + 1
                          /\ UNCHANGED <<fpc, fact_result>>
    /\ UNCHANGED <<captionVars, concVars, dedupVars, restVars, generator, responses, sources>>

\* main.py:251-257, main.py:300-306
ReturnFallback ==
    /\ fpc = "loop"
    /\ src_idx > Len(sources)
    /\ fact_result' = [fact |-> Honey(generator), label |-> "Z"]
    /\ fpc' = "returned"
    /\ UNCHANGED <<captionVars, concVars, dedupVars, restVars, generator, responses, sources, src_idx,
                   tried>>

----------------------------------------------------------------------------
(* The duplicate check of main.py: normalize_fact,                         *)
(* load_seen_facts_from_firestore, save_fact_to_firestore and              *)
(* is_duplicate_fact.  One action per call; what the Firestore client does *)
(* (answer or raise) is chosen by \E.                                      *)

MaxCalls == 3

\* threshold of main.py:144, in hundredths
THRESHOLD == 88

\* str.lower, main.py:61
Lower(c) == IF c = "A" THEN "a" ELSE IF c = "B" THEN "b" ELSE c

\* the class [a-z0-9\s] of main.py:62
Kept(c) == c \in {"a", "b"} \/ IsSpace(c)

RECURSIVE KeepChars(_)
KeepChars(s) ==
    IF s = <<>> THEN <<>>
    ELSE IF Kept(Head(s)) THEN <<Head(s)>> \o KeepChars(Tail(s))
         ELSE KeepChars(Tail(s))

\* code point order of the characters a word can hold after main.py:62
CharRank(c) == IF c = "a" THEN 1 ELSE 2

\* u <= v in the order of Python strings
RECURSIVE StrLeq(_, _)
StrLeq(u, v) ==
    IF u = <<>> THEN TRUE
    ELSE IF v = <<>> THEN FALSE
    ELSE IF Head(u) = Head(v) THEN StrLeq(Tail(u), Tail(v))
    ELSE CharRank(Head(u)) < CharRank(Head(v))

RECURSIVE Insert(_, _)
Insert(w, ws) ==
    IF ws = <<>> THEN <<w>>
    ELSE IF StrLeq(w, Head(ws)) THEN <<w>> \o ws
         ELSE <<Head(ws)>> \o Insert(w, Tail(ws))

\* sorted(), main.py:63
RECURSIVE Sorted(_)
Sorted(ws) == IF ws = <<>> THEN <<>> ELSE Insert(Head(ws), Sorted(Tail(ws)))

\* main.py:59-64
normalize_fact(t) ==
    Join(Sorted(SplitWhitespace(KeepChars([j \in 1..Len(t) |-> Lower(t[j])]))), SP)

\* length of the common run of a from i and of b from j inside the windows
RECURSIVE CommonLen(_, _, _, _, _, _)
CommonLen(a, ai, ahi, b, bj, bhi) ==
    IF ai > ahi \/ bj > bhi THEN 0
    ELSE IF a[ai] # b[bj] THEN 0
    ELSE 1 + CommonLen(a, ai + 1, ahi, b, bj + 1, bhi)

\* difflib.SequenceMatcher.find_longest_match without junk: the longest
\* common block of the two windows, the earliest in a and then in b among
\* the longest; <<0, 0, 0>> stands for no common element
LongestMatch(a, alo, ahi, b, blo, bhi) ==
    LET cand == (alo..ahi) \X (blo..bhi)
        len(p) == CommonLen(a, p[1], ahi, b, p[2], bhi)
    IN CHOOSE m \in {<<0, 0, 0>>} \cup {<<p[1], p[2], len(p)>> : p \in cand} :
           /\ m[3] = 0 <=> \A p \in cand : len(p) = 0
           /\ \A p \in cand :
                  \/ len(p) < m[3]
                  \/ /\ len(p) = m[3]
                     /\ \/ m[1] < p[1]
                        \/ m[1] = p[1] /\ m[2] <= p[2]
                  \/ m[3] = 0

\* difflib.SequenceMatcher.get_matching_blocks: the longest block, then the
\* same to its left and to its right; the sum of the block sizes.  autojunk
\* only acts on a second sequence of 200 elements or more.
RECURSIVE MatchCount(_, _, _, _, _, _)
MatchCount(a, alo, ahi, b, blo, bhi) ==
    IF alo > ahi \/ blo > bhi THEN 0
    ELSE CHOOSE total \in
             {IF m[3] = 0 THEN 0
              ELSE m[3] + MatchCount(a, alo, m[1] - 1, b, blo, m[2] - 1)
                        + MatchCount(a, m[1] + m[3], ahi, b, m[2] + m[3], bhi) :
                  m \in {LongestMatch(a, alo, ahi, b, blo, bhi)}} : TRUE

\* main.py:158-159: SequenceMatcher(None, a, b).ratio() > threshold, the
\* ratio being 2.0 * matches / length and 1.0 for two empty strings
TooSimilar(a, b) ==
    \E x \in {a}, y \in {b} :
        IF Len(x) + Len(y) = 0 THEN TRUE
        ELSE 200 * MatchCount(x, 1, Len(x), y, 1, Len(y)) > THRESHOLD * (Len(x) + Len(y))

IsDuplicateExactOnly(seen, normalized) == normalized \in seen

\* main.py:153-160
IsDuplicate(seen, normalized) ==
    \/ normalized \in seen
    \/ \E existing \in seen : TooSimilar(normalized, existing)

\* the facts the calls are made with
Facts == {
    <<"b", SP, "a">>,
    <<"A", SP, "b", ".">>,
    <<".">>,
    <<"a", "a", SP, "a", "a">>,
    <<"a", "a", SP, "a", "a", "b">> }

\* main.py:95-99
Doc(f) == [fact |-> f, normalized |-> normalize_fact(f)]

\* what earlier runtimes left in the collection
Histories == {
    <<>>,
    <<Doc(<<"b", SP, "a">>)>>,
    <<Doc(<<".">>), Doc(<<"a", "a", SP, "a", "a">>)>> }

\* main.py:75-78 for the documents streamed before the stream ended
Loaded(docs, streamed) ==
    {docs[j].normalized : j \in {h \in streamed : docs[h].normalized # <<>>}}

CheckedOnSuccess(outcome) == outcome = "ok"

\* main.py:72: the flag is set before the read is tried
CheckedAfterRead(outcome) == TRUE

\* how the stream of main.py:74-78 can end: with every document, or by an
\* exception after some of them; no stream when the flag is set
Streams ==
    IF checked_firestore
    THEN {[outcome |-> "none", streamed |-> {}]}
    ELSE {[outcome |-> "ok", streamed |-> 1..Len(facts_history)]}
             \cup {[outcome |-> "raise", streamed |-> d] :
                       d \in SUBSET (1..Len(facts_history))}

\* main.py:70-78: the seen set after the call
SeenAfterLoad(stream) ==
    IF checked_firestore
    THEN seen_facts
    ELSE seen_facts \cup Loaded(facts_history, stream.streamed)

\* main.py:67-81: the bookkeeping of one call
LoadStep(stream) ==
    /\ load_calls' = load_calls + 1
    /\ IF checked_firestore
       THEN UNCHANGED <<checked_firestore, read_calls, read_outcome>>
       ELSE /\ checked_firestore' = CheckedAfterRead(stream.outcome)
            /\ read_calls' = Append(read_calls, load_calls + 1)
            /\ read_outcome' = stream.outcome

\* main.py:67-81
load_seen_facts_from_firestore ==
    /\ calls < MaxCalls
    /\ calls' = calls + 1
    /\ \E stream \in Streams :
           /\ LoadStep(stream)
           /\ seen_facts' = SeenAfterLoad(stream)
    /\ ret' = "none"
    /\ UNCHANGED <<captionVars, concVars, factVars, restVars, facts_history, fact, seen_before,
                   seen_loaded, history_before, reported>>

AddSeenNothing(seen, normalized) == seen

\* main.py:163
AddSeen(seen, normalized) == seen \cup {normalized}

\* main.py:84-141 as a function of the seen set and the collection: the
\* document is added unless the Firestore client raises, the export that
\* follows changes neither the collection nor the seen set
Saved(f, seen, history, added) ==
    IF added
    THEN [seen |-> seen \cup {normalize_fact(f)}, history |-> Append(history, Doc(f))]
    ELSE [seen |-> seen, history |-> history]

\* main.py:149-165 for one end of the stream and of the save
Checked(f, stream, added) ==
    LET seen == SeenAfterLoad(stream)
        normalized == normalize_fact(f)
    IN IF IsDuplicate(seen, normalized)
       THEN [ret |-> "True", seen |-> seen, history |-> facts_history]
       ELSE LET saved == Saved(f, AddSeen(seen, normalized), facts_history, added)
            IN [ret |-> "False", seen |-> saved.seen, history |-> saved.history]

\* main.py:84-141, called on its own
save_fact_to_firestore(f) ==
    /\ calls < MaxCalls
    /\ calls' = calls + 1
    /\ \E added \in BOOLEAN :
           LET saved == Saved(f, seen_facts, facts_history, added)
           IN /\ facts_history' = saved.history
              /\ seen_facts' = saved.seen
    /\ ret' = "none"
    /\ UNCHANGED <<captionVars, concVars, factVars, restVars, checked_firestore, load_calls,
                   read_calls, read_outcome, fact, seen_before, seen_loaded,
                   history_before, reported>>

\* main.py:144-165: what one call does besides the seen set and the
\* collection, which Checked gives
DuplicateCall(f, stream, added) ==
    /\ fact' = f
    /\ seen_before' = seen_facts
    /\ history_before' = facts_history
    /\ LoadStep(stream)
    /\ seen_loaded' = SeenAfterLoad(stream)
    /\ ret' = Checked(f, stream, added).ret
    /\ reported' = IF Checked(f, stream, added).ret = "False"
                   THEN Append(reported, normalize_fact(f))
                   ELSE reported

\* main.py:144-165
is_duplicate_fact(f) ==
    /\ calls < MaxCalls
    /\ calls' = calls + 1
    /\ \E stream \in Streams, added \in BOOLEAN :
           /\ DuplicateCall(f, stream, added)
           /\ seen_facts' = Checked(f, stream, added).seen
           /\ facts_history' = Checked(f, stream, added).history
    /\ UNCHANGED <<captionVars, concVars, factVars, restVars>>

----------------------------------------------------------------------------
(* get_unique_fact of main.py *)

NoLocals == [fact |-> "none", video_gcs |-> "none", youtube_video_id |-> "none"]

NoResponse == [code |-> 0, status |-> "none"]

\* range(5), main.py:180
ATTEMPTS == 5

\* limit=10, main.py:168
RECENT_LIMIT == 10

\* main.py:168-176 when the query succeeds: the facts of the latest documents
RecentFacts(history) ==
    LET first == Max(1, Len(history) - RECENT_LIMIT + 1)
    IN {history[j].fact : j \in {h \in first..Len(history) : history[h].fact # <<>>}}

\* the texts the language model answers with
GeneratedTexts == {
    <<"b", SP, "a">>,
    <<"b">>,
    <<"a", "a", SP, "a", "a", "b">> }

\* what get_dynamic_fact (main.py:204-257) or get_dynamic_fact_JINJA
\* (main.py:259-310) can return
Generated(dest) ==
    {[fact |-> t, label |-> SourceLabel(source)] : t \in GeneratedTexts, source \in SourceIds}
        \cup {[fact |-> Honey(dest), label |-> "Z"]}

InLoopLonger(n) == n <= ATTEMPTS + 2

\* main.py:180, n counting the iterations from 1
InLoop(n) == n <= ATTEMPTS

\* main.py:179
LoadRecentFacts ==
    /\ upc = "start"
    /\ recent' \in {RecentFacts(facts_history), {}}
    /\ history_at_entry' = facts_history
    /\ attempt' = 1
    /\ upc' = "loop"
    /\ UNCHANGED <<captionVars, concVars, factVars, dedupVars, imageVars, endpointVars,
                   ytdest, generator_calls, checked_attempts, unique_result, add_failed>>

\* main.py:180-190, one iteration
UniqueAttempt ==
    /\ upc = "loop"
    /\ InLoop(attempt)
    /\ \E cand \in Generated(ytdest), stream \in Streams, added \in BOOLEAN,
          added_again \in BOOLEAN :
           LET checked == Checked(cand.fact, stream, added)
               saved == Saved(cand.fact, checked.seen, checked.history, added_again)
           IN /\ DuplicateCall(cand.fact, stream, added)
              /\ generator_calls' = generator_calls + 1
              /\ checked_attempts' = checked_attempts + 1
              /\ IF checked.ret = "False" /\ cand.fact \notin recent
                 THEN /\ seen_facts' = saved.seen
                      /\ facts_history' = saved.history
                      /\ add_failed' = (add_failed \/ ~added \/ ~added_again)
                      /\ unique_result' = cand
                      /\ upc' = "returned"
                      /\ UNCHANGED attempt
                 ELSE /\ seen_facts' = checked.seen
                      /\ facts_history' = checked.history
                      /\ add_failed' = (add_failed \/ (checked.ret = "False" /\ ~added))
                      /\ attempt' = attempt + 1
                      /\ UNCHANGED <<unique_result, upc>>
    /\ UNCHANGED <<captionVars, concVars, factVars, imageVars, endpointVars, calls,
                   ytdest, recent, history_at_entry>>

\* main.py:192-202
UniqueFallback ==
    /\ upc = "loop"
    /\ ~InLoop(attempt)
    /\ \E cand \in Generated(ytdest), added \in BOOLEAN :
           LET saved == Saved(cand.fact, seen_facts, facts_history, added)
           IN /\ generator_calls' = generator_calls + 1
              /\ seen_facts' = saved.seen
              /\ facts_history' = saved.history
              /\ add_failed' = (add_failed \/ ~added)
              /\ unique_result' = cand
              /\ upc' = "returned"
    /\ UNCHANGED <<captionVars, concVars, factVars, imageVars, endpointVars,
                   checked_firestore, load_calls, read_calls, read_outcome, fact, ret,
                   seen_before, seen_loaded, history_before, calls, reported, ytdest,
                   recent, attempt, checked_attempts, history_at_entry>>

----------------------------------------------------------------------------
(* generate_gemini_tech_image of main.py *)

MaxRetries == 3

\* how one attempt can end: an image that is saved, a response without
\* images, no response, an exception of generate_images, an exception of
\* the write of main.py:666-667
ImageOutcomes == {"image", "no_images", "none", "raise", "write_raise"}

\* main.py:662-670: the attempt returns the path
ImageSaved(outcome) == outcome = "image"

InRetriesOneMore(n, retries) == n <= retries + 1

\* main.py:653, range(1, max_retries + 1)
InRetries(n, retries) == n <= retries

\* main.py:613-650: the client and the prompt, or an exception of the client
ImageSetup ==
    /\ ipc = "start"
    /\ ipc' \in {"loop", "SetupError"}
    /\ img_attempt' = 1
    /\ UNCHANGED <<captionVars, concVars, factVars, dedupVars, uniqueVars, endpointVars,
                   max_retries, image_outcomes, bg_path>>

\* main.py:653-675, one iteration
ImageAttempt ==
    /\ ipc = "loop"
    /\ InRetries(img_attempt, max_retries)
    /\ \E outcome \in ImageOutcomes :
           /\ image_outcomes' = Append(image_outcomes, outcome)
           /\ IF ImageSaved(outcome)
              THEN /\ bg_path' = img_attempt
                   /\ ipc' = "returned"
                   /\ UNCHANGED img_attempt
              ELSE /\ img_attempt' = img_attempt + 1
                   /\ UNCHANGED <<bg_path, ipc>>
    /\ UNCHANGED <<captionVars, concVars, factVars, dedupVars, uniqueVars, endpointVars,
                   max_retries>>

\* main.py:677
ImageGiveUp ==
    /\ ipc = "loop"
    /\ ~InRetries(img_attempt, max_retries)
    /\ ipc' = "RuntimeError"
    /\ UNCHANGED <<captionVars, concVars, factVars, dedupVars, uniqueVars, endpointVars,
                   max_retries, img_attempt, image_outcomes, bg_path>>

----------------------------------------------------------------------------
(* generate_endpoint of main.py: two pipelines of the same five steps *)

\* main.py:1177-1182, 1184, 1188, 1191-1197, 1200-1207 and the same for kk
Steps == <<"fact", "category", "video", "title", "upload">>

\* the facts get_unique_fact returns or the request carries
EndpointFacts == {"f1", "f2"}

\* the ids upload_video_to_youtube_gcs returns
VideoIds == {"id1", "id2"}

\* main.py:1187, main.py:1229
OutputPath(pipeline) == IF pipeline = "tech" THEN "output_tech.mp4" ELSE "output_kk.mp4"

HandlerOuterOnly(pipeline) == "outer"

\* the except clause that catches an exception of a step: main.py:1257 for
\* the kk pipeline, main.py:1269 for the tech pipeline
Handler(pipeline) == IF pipeline = "kk" THEN "inner" ELSE "outer"

\* the locals after a step that returned
AfterStep(step, pipeline, generated, id) ==
    IF step = "fact"
    THEN [locals EXCEPT !.fact = IF request_fact # "none" THEN request_fact ELSE generated]
    ELSE IF step = "video" THEN [locals EXCEPT !.video_gcs = OutputPath(pipeline)]
    ELSE IF step = "upload" THEN [locals EXCEPT !.youtube_video_id = id]
    ELSE locals

\* one step of the running pipeline, which returns or raises
EndpointStep ==
    /\ epc \in {"tech", "kk"}
    /\ \E raises \in BOOLEAN, generated \in EndpointFacts, id \in VideoIds :
           IF raises
           THEN /\ failed_in' = epc
                /\ IF Handler(epc) = "inner"
                   THEN /\ qq_result' = [error |-> Steps[estep]]
                        /\ epc' = "respond"
                        /\ UNCHANGED http_response
                   ELSE /\ http_response' = [code |-> 500, status |-> "error",
                                             message |-> Steps[estep]]
                        /\ epc' = "responded"
                        /\ UNCHANGED qq_result
                /\ UNCHANGED <<estep, locals, tech_result, main_result, kk_started>>
           ELSE /\ locals' = AfterStep(Steps[estep], epc, generated, id)
                /\ IF estep < Len(Steps)
                   THEN /\ estep' = estep + 1
                        /\ UNCHANGED <<epc, tech_result, main_result, qq_result, kk_started>>
                   ELSE IF epc = "tech"
                        THEN /\ main_result' = locals'
                             /\ tech_result' = locals'
                             /\ kk_started' = TRUE
                             /\ epc' = "kk"
                             /\ estep' = 1
                             /\ UNCHANGED qq_result
                        ELSE /\ qq_result' = locals'
                             /\ epc' = "respond"
                             /\ UNCHANGED <<estep, tech_result, main_result, kk_started>>
                /\ UNCHANGED <<failed_in, http_response>>
    /\ UNCHANGED <<captionVars, concVars, factVars, dedupVars, uniqueVars, imageVars,
                   request_fact>>

\* main.py:1263-1267
EndpointRespond ==
    /\ epc = "respond"
    /\ http_response' = [code |-> 200, status |-> "ok", main |-> main_result,
                         qq |-> qq_result]
    /\ epc' = "responded"
    /\ UNCHANGED <<captionVars, concVars, factVars, dedupVars, uniqueVars, imageVars,
                   estep, request_fact, locals, tech_result, main_result, qq_result,
                   kk_started, failed_in>>

----------------------------------------------------------------------------
(* Specifications *)

\* a fact of n words "a" separated by single spaces
WordsText(n) == [j \in 1..(IF n = 0 THEN 0 ELSE 2 * n - 1) |->
                    IF j % 2 = 1 THEN "a" ELSE SP]

\* the facts narrated in the timing runs: every word wraps onto its own line
TimingTexts == {WordsText(n) : n \in 0..MaxWords} \cup {<<SP>>, <<NL, SP>>}

\* every text of at most MaxLen characters
AllTexts == UNION {[1..n -> Chars] : n \in 0..MaxLen}

Fonts == [b : 1..MaxCharW, ws : 0..1]

InitLocals ==
    /\ words = <<>>
    /\ k = 1
    /\ current_line = <<>>
    /\ line = <<>>
    /\ lines = <<>>
    /\ pages = <<>>
    /\ audio_duration = 0
    /\ segments = <<>>
    /\ per_page_durations = <<>>
    /\ den = 1
    /\ aeneas_starts = <<>>
    /\ video_starts = <<>>
    /\ i = 1
    /\ entry_durations = <<>>
    /\ excess = 0
    /\ adj_total = 0
    /\ clips = <<>>
    /\ clip_starts = <<>>

\* no call of mmain.py create_trivia_video is running
ConcIdle ==
    /\ cpc = [c \in Calls |-> "off"]
    /\ bucket = [c \in Calls |-> "b1"]
    /\ tmp_background = 0
    /\ tmp_narration = 0
    /\ tmp_video = NoVideo
    /\ blob_narration = [b \in Buckets |-> 0]
    /\ bg_used = [c \in Calls |-> 0]
    /\ audio_used = [c \in Calls |-> 0]
    /\ uploaded = [c \in Calls |-> NoVideo]

\* get_dynamic_fact is not running
FactIdle ==
    /\ fpc = "off"
    /\ generator = "tech"
    /\ responses = [s \in SourceIds |-> [kind |-> "none", text |-> <<>>]]
    /\ sources = <<1, 2>>
    /\ src_idx = 1
    /\ tried = <<>>
    /\ fact_result = NoResult

\* main.py:48-49 with an empty collection and no call made
DedupIdle ==
    /\ seen_facts = {}
    /\ checked_firestore = FALSE
    /\ facts_history = <<>>
    /\ load_calls = 0
    /\ read_calls = <<>>
    /\ read_outcome = "none"
    /\ fact = <<>>
    /\ ret = "none"
    /\ seen_before = {}
    /\ seen_loaded = {}
    /\ history_before = <<>>
    /\ calls = 0
    /\ reported = <<>>

\* get_unique_fact is not running
UniqueIdle ==
    /\ upc = "off"
    /\ ytdest = "tech"
    /\ recent = {}
    /\ attempt = 1
    /\ generator_calls = 0
    /\ checked_attempts = 0
    /\ unique_result = NoResult
    /\ history_at_entry = <<>>
    /\ add_failed = FALSE

\* generate_gemini_tech_image is not running
ImageIdle ==
    /\ ipc = "off"
    /\ max_retries = 0
    /\ img_attempt = 1
    /\ image_outcomes = <<>>
    /\ bg_path = 0

\* generate_endpoint is not running
EndpointIdle ==
    /\ epc = "off"
    /\ estep = 1
    /\ request_fact = "none"
    /\ locals = NoLocals
    /\ tech_result = NoLocals
    /\ main_result = NoLocals
    /\ qq_result = NoLocals
    /\ http_response = NoResponse
    /\ kk_started = FALSE
    /\ failed_in = "none"

RestIdle == UniqueIdle /\ ImageIdle /\ EndpointIdle

OthersIdle == ConcIdle /\ FactIdle /\ DedupIdle /\ RestIdle

\* main.py create_trivia_video is not running
CaptionIdle ==
    /\ pc = "off"
    /\ text = <<>>
    /\ font = [b |-> 1, ws |-> 1]
    /\ max_width = 1
    /\ InitLocals

\* main.py create_trivia_video on a fact
Init ==
    /\ pc = "split"
    /\ text \in TimingTexts
    /\ font = [b |-> 1, ws |-> 1]
    /\ max_width = 1
    /\ InitLocals
    /\ OthersIdle

Next ==
    \/ SplitText
    \/ WrapWord
    \/ WrapFlush
    \/ Align
    \/ ParsePage
    \/ InitStarts
    \/ CorrectPage
    \/ Shortfall
    \/ Overshoot
    \/ Balanced
    \/ TrimPage
    \/ FinalSafety
    \/ MakeClips
    \/ ClipSafety
    \/ Concatenate

Spec == Init /\ [][Next]_vars

\* the two line splitters on every short text and every font of the family
InitWrap ==
    /\ pc \in {"split", "image_split"}
    /\ text \in AllTexts
    /\ font \in Fonts
    /\ max_width \in 1..MaxWidth
    /\ InitLocals
    /\ OthersIdle

NextWrap ==
    \/ SplitText
    \/ WrapWord
    \/ WrapFlush
    \/ ImageSplitText
    \/ ImageWrapWord
    \/ ImageWrapFlush

SpecWrap == InitWrap /\ [][NextWrap]_vars

\* two requests to mmain.py generate_video running concurrently
InitConc ==
    /\ CaptionIdle
    /\ FactIdle
    /\ DedupIdle
    /\ RestIdle
    /\ cpc = [c \in Calls |-> "download_bg"]
    /\ bucket \in [Calls -> Buckets]
    /\ tmp_background = 0
    /\ tmp_narration = 0
    /\ tmp_video = NoVideo
    /\ blob_narration = [b \in Buckets |-> 0]
    /\ bg_used = [c \in Calls |-> 0]
    /\ audio_used = [c \in Calls |-> 0]
    /\ uploaded = [c \in Calls |-> NoVideo]

NextConc ==
    \/ \E c \in Calls : DownloadBackground(c)
    \/ \E c \in Calls : SynthesizeTts(c)
    \/ \E c \in Calls : DownloadNarration(c)
    \/ \E c \in Calls : LoadAudio(c)
    \/ \E c \in Calls : LoadBackground(c)
    \/ \E c \in Calls : WriteVideo(c)
    \/ \E c \in Calls : UploadVideo(c)
    \/ \E c \in Calls : Cleanup(c)

SpecConc == InitConc /\ [][NextConc]_vars

\* one call of either fact generator, for every behaviour of the model
InitFact ==
    /\ CaptionIdle
    /\ ConcIdle
    /\ DedupIdle
    /\ RestIdle
    /\ fpc = "start"
    /\ generator \in {"tech", "kk"}
    /\ responses \in [SourceIds -> Responses]
    /\ sources = <<1, 2>>
    /\ src_idx = 1
    /\ tried = <<>>
    /\ fact_result = NoResult

NextFact ==
    \/ ShuffleSources
    \/ TrySource
    \/ ReturnFallback

SpecFact == InitFact /\ [][NextFact]_vars

\* one runtime: the module has just been imported (main.py:48-49) and the
\* collection holds what earlier runtimes wrote
InitDedup ==
    /\ CaptionIdle
    /\ ConcIdle
    /\ FactIdle
    /\ RestIdle
    /\ seen_facts = {}
    /\ checked_firestore = FALSE
    /\ facts_history \in Histories
    /\ load_calls = 0
    /\ read_calls = <<>>
    /\ read_outcome = "none"
    /\ fact = <<>>
    /\ ret = "none"
    /\ seen_before = {}
    /\ seen_loaded = {}
    /\ history_before = <<>>
    /\ calls = 0
    /\ reported = <<>>

NextDedup ==
    \/ load_seen_facts_from_firestore
    \/ \E f \in Facts : save_fact_to_firestore(f)
    \/ \E f \in Facts : is_duplicate_fact(f)

SpecDedup == InitDedup /\ [][NextDedup]_vars

\* the states a runtime can be in when get_unique_fact is called: nothing
\* loaded yet, the history loaded, or the load tried and failed
Runtimes ==
    {[checked |-> FALSE, outcome |-> "none"], [checked |-> TRUE, outcome |-> "ok"],
     [checked |-> TRUE, outcome |-> "raise"]}

\* one call of get_unique_fact; the calls it makes return
InitUnique ==
    /\ CaptionIdle
    /\ ConcIdle
    /\ FactIdle
    /\ ImageIdle
    /\ EndpointIdle
    /\ facts_history \in Histories
    /\ \E runtime \in Runtimes :
           /\ checked_firestore = runtime.checked
           /\ read_outcome = runtime.outcome
           /\ load_calls = (IF runtime.checked THEN 1 ELSE 0)
           /\ read_calls = (IF runtime.checked THEN <<1>> ELSE <<>>)
           /\ seen_facts = (IF runtime.outcome = "ok"
                            THEN Loaded(facts_history, 1..Len(facts_history))
                            ELSE {})
    /\ fact = <<>>
    /\ ret = "none"
    /\ seen_before = {}
    /\ seen_loaded = {}
    /\ history_before = <<>>
    /\ calls = 0
    /\ reported = <<>>
    /\ upc = "start"
    /\ ytdest \in {"tech", "kk"}
    /\ recent = {}
    /\ attempt = 1
    /\ generator_calls = 0
    /\ checked_attempts = 0
    /\ unique_result = NoResult
    /\ history_at_entry = <<>>
    /\ add_failed = FALSE

NextUnique ==
    \/ LoadRecentFacts
    \/ UniqueAttempt
    \/ UniqueFallback

\* get_unique_fact is sequential code: it keeps running while it can
SpecUnique == InitUnique /\ [][NextUnique]_vars /\ WF_vars(NextUnique)

\* one call of generate_gemini_tech_image
InitImage ==
    /\ CaptionIdle
    /\ ConcIdle
    /\ FactIdle
    /\ DedupIdle
    /\ UniqueIdle
    /\ EndpointIdle
    /\ ipc = "start"
    /\ max_retries \in 0..MaxRetries
    /\ img_attempt = 1
    /\ image_outcomes = <<>>
    /\ bg_path = 0

NextImage ==
    \/ ImageSetup
    \/ ImageAttempt
    \/ ImageGiveUp

SpecImage == InitImage /\ [][NextImage]_vars

\* one request to /generate
InitEndpoint ==
    /\ CaptionIdle
    /\ ConcIdle
    /\ FactIdle
    /\ DedupIdle
    /\ UniqueIdle
    /\ ImageIdle
    /\ epc = "tech"
    /\ estep = 1
    /\ request_fact \in {"none"} \cup EndpointFacts
    /\ locals = NoLocals
    /\ tech_result = NoLocals
    /\ main_result = NoLocals
    /\ qq_result = NoLocals
    /\ http_response = NoResponse
    /\ kk_started = FALSE
    /\ failed_in = "none"

NextEndpoint ==
    \/ EndpointStep
    \/ EndpointRespond

SpecEndpoint == InitEndpoint /\ [][NextEndpoint]_vars

----------------------------------------------------------------------------
(* Properties *)

Abs(x) == IF x >= 0 THEN x ELSE -x

Paged == pc \notin {"split", "wrap", "image_split", "image_wrap", "image_draw"}

\* starts lays durs end to end from time 0
Tiling(starts, durs) ==
    /\ Len(starts) = Len(durs)
    /\ Len(starts) > 0 => starts[1] = 0
    /\ \A j \in 1..(Len(durs) - 1) : starts[j + 1] = starts[j] + durs[j]

Increasing(s) == \A j \in 1..(Len(s) - 1) : s[j] < s[j + 1]

WordCount(p) == Len(SplitWhitespace(pages[p]))

WordsBefore(j) == SumSeq([p \in 1..(j - 1) |-> WordCount(p)])

TotalWords == WordsBefore(Len(pages) + 1)

\* C1: with at least one page and audio_duration > 0, the durations of the
\* clips handed to the concatenation sum to audio_duration within 0.01 s.
C1_Coverage ==
    (pc = "done" /\ Len(pages) >= 1 /\ audio_duration > 0)
        => Abs(SumSeq(clips) - audio_duration * den) <= 10 * den

\* C2: when every page has a fragment and the aligner starts increase, every page after the first starts
\* in the final timeline no earlier than its aligner start minus 0.03 s.
C2_MonotonicAnchoring ==
    (/\ pc = "done"
     /\ audio_duration > 0
     /\ Len(segments) >= Len(pages)
     /\ Increasing(aeneas_starts))
        => \A j \in 2..Len(clips) :
               clip_starts[j] >= (aeneas_starts[j] - TOLERANCE) * den

\* C3: at every point of the timing computation every page duration, and
\* every clip duration handed to the renderer, is at least 0.05 s.
C3_DurationFloor ==
    /\ \A j \in 1..Len(per_page_durations) : per_page_durations[j] >= FLOOR * den
    /\ \A j \in 1..Len(clips) : clips[j] >= FLOOR * den

C3_Witness ==
    /\ pc = "done"
    /\ den > 1
    /\ \E j \in 1..(Len(clips) - 1) : clips[j] = FLOOR * den /\ entry_durations[j] > FLOOR
    /\ clips[Len(clips)] < entry_durations[Len(clips)] * den
    /\ \E j \in 1..Len(segments) : segments[j].end - segments[j].begin < FLOOR

\* C4: the whitespace-delimited words of the pages, in page order, are
\* exactly the whitespace-delimited words of the fact text.
C4_TextFidelity ==
    pc = "tts" =>
        Flatten([p \in 1..Len(pages) |-> SplitWhitespace(pages[p])])
            = SplitWhitespace(text)

C4_Witness ==
    /\ pc = "tts"
    /\ Len(pages) >= 2
    /\ \E j \in 1..Len(lines) : lines[j] = <<>>
    /\ Len(SplitWhitespace(text)) >= 2

\* C5: every line of either splitter fits max_width or is a single word,
\* and a word wider than max_width stands on a line of its own, whole.
C5_WidthBound ==
    /\ pc \in {"wrap", "tts"} =>
          /\ \A j \in 1..Len(lines) :
                 Measure(lines[j]) <= max_width \/ Len(SplitWhitespace(lines[j])) = 1
          /\ pc = "tts" =>
                 \A w \in 1..Len(words) :
                     Measure(words[w]) > max_width
                         => \E j \in 1..Len(lines) : lines[j] = words[w]
    /\ pc \in {"image_wrap", "image_draw"} =>
          /\ \A j \in 1..Len(lines) :
                 Measure(lines[j]) <= max_width \/ Len(SplitSpace(lines[j])) = 1
          /\ pc = "image_draw" =>
                 \A w \in 1..Len(words) :
                     Measure(Strip(words[w])) > max_width
                         => \E j \in 1..Len(lines) : Strip(lines[j]) = Strip(words[w])

C5_Witness ==
    /\ pc = "image_draw"
    /\ Len(lines) >= 2
    /\ \E j \in 1..Len(lines) : Measure(lines[j]) > max_width

\* C6: the pages are laid end to end from time 0: video_starts tiles
\* per_page_durations throughout the correction pass, and the clips of the
\* concatenation tile the final durations.
C6_Tiling ==
    /\ pc = "correct" => Tiling(video_starts, per_page_durations)
    /\ pc = "done" => Tiling(clip_starts, clips)

C6_Witness ==
    /\ pc = "done"
    /\ Len(clips) >= 3
    /\ den > 1
    /\ \E j \in 2..Len(clips) : video_starts[j] = aeneas_starts[j] /\ aeneas_starts[j] > 0

\* C7: an empty or whitespace-only fact text yields exactly one page, whose
\* duration is audio_duration.
C7_DegenerateInput ==
    (Paged /\ SplitWhitespace(text) = <<>>)
        => /\ Len(pages) = 1
           /\ pc \notin {"IndexError", "ConcatError"}
           /\ pc = "done" => clips = <<audio_duration * den>>

\* C8: when the total exceeds audio_duration and every page but the last is
\* at the 0.05 s floor, the last page is shrunk by the excess, down to the
\* floor.
C8_OvershootNoSlack ==
    (/\ pc = "clips"
     /\ audio_duration > 0
     /\ Len(entry_durations) >= 2
     /\ SumSeq(entry_durations) > audio_duration + EPSILON
     /\ \A j \in 1..(Len(entry_durations) - 1) : entry_durations[j] = FLOOR)
        => per_page_durations[Len(per_page_durations)] =
               Max(FLOOR, entry_durations[Len(entry_durations)]
                              - (SumSeq(entry_durations) - audio_duration)) * den

\* C9: when the total after the correction pass is below audio_duration, the
\* shortfall is added to the last page, the other pages keep their
\* durations, and the total becomes audio_duration.
C9_Shortfall ==
    (pc = "clips" /\ SumSeq(entry_durations) < audio_duration)
        => /\ den = 1
           /\ Len(per_page_durations) = Len(entry_durations)
           /\ per_page_durations[Len(per_page_durations)] =
                  entry_durations[Len(entry_durations)]
                      + (audio_duration - SumSeq(entry_durations))
           /\ \A j \in 1..(Len(entry_durations) - 1) :
                  per_page_durations[j] = entry_durations[j]
           /\ SumSeq(per_page_durations) = audio_duration

C9_Witness ==
    /\ pc = "clips"
    /\ SumSeq(entry_durations) < audio_duration
    /\ Len(per_page_durations) >= 2
    /\ per_page_durations # entry_durations

C11_ZeroAudioRejected ==
    pc \in {"parse", "correct", "trim", "clips", "safety", "concat", "done"}
        => audio_duration # 0

\* C16: throughout and after the single correction pass, every page already
\* visited starts no earlier than its aligner start minus 0.03 s, whatever
\* the aligner starts are.
C16_ForwardCorrection ==
    pc = "correct" =>
        \A j \in 2..(IF i - 1 <= Len(pages) THEN i - 1 ELSE Len(pages)) :
            video_starts[j] >= aeneas_starts[j] - TOLERANCE

C16_Witness ==
    /\ pc = "correct"
    /\ i > Len(pages)
    /\ Len(pages) >= 3
    /\ \A j \in 2..Len(pages) : video_starts[j] = aeneas_starts[j]
    /\ \A j \in 1..Len(pages) : j <= Len(segments)
    /\ per_page_durations[1] # ParseDur(segments[1].begin, segments[1].end)
    /\ per_page_durations[2] # ParseDur(segments[2].begin, segments[2].end)

\* C17: with at least 2 pages, an overshoot above 0.001 s and slack of the
\* non-last pages at least the excess, every non-last page above the floor
\* loses (d - 0.05) / slack * excess, the last page keeps its duration, and
\* the new total is audio_duration.
C17_ProportionalTrim ==
    LET n == Len(entry_durations)
        total == SumSeq(entry_durations)
        slack == AdjTotal(entry_durations)
    IN (/\ pc = "clips"
        /\ n >= 2
        /\ total > audio_duration + EPSILON
        /\ slack >= total - audio_duration)
           => /\ den = slack
              /\ \A j \in 1..(n - 1) :
                     per_page_durations[j] =
                         IF entry_durations[j] > FLOOR
                         THEN entry_durations[j] * slack
                                  - (entry_durations[j] - FLOOR) * (total - audio_duration)
                         ELSE entry_durations[j] * slack
              /\ per_page_durations[n] = entry_durations[n] * slack
              /\ SumSeq(per_page_durations) = audio_duration * slack

C17_Witness ==
    /\ pc = "clips"
    /\ den > 1
    /\ Len(entry_durations) >= 3
    /\ AdjTotal(entry_durations) > SumSeq(entry_durations) - audio_duration
    /\ entry_durations[1] > FLOOR
    /\ entry_durations[2] > FLOOR
    /\ entry_durations[1] # entry_durations[2]

\* C18: the lines are grouped in order into pages of exactly 2 lines, the
\* last page holding 1 line when the number of lines is odd; there are
\* ceil(lines / 2) pages.
C18_PageGrouping ==
    pc = "tts" =>
        /\ 2 * Len(pages) \in {Len(lines), Len(lines) + 1}
        /\ \A p \in 1..Len(pages) :
               pages[p] = IF 2 * p <= Len(lines)
                          THEN lines[2 * p - 1] \o <<NL>> \o lines[2 * p]
                          ELSE lines[2 * p - 1]

C18_Witness ==
    /\ pc = "tts"
    /\ Len(lines) = 5
    /\ Len(pages) = 3

\* C19: a line is closed only when the next word does not fit: every line
\* but the last, followed by a space and the first word of the next line,
\* is wider than max_width.
C19_GreedyMaximality ==
    /\ pc = "tts" =>
          \A j \in 1..(Len(lines) - 1) :
              Measure(lines[j] \o <<SP>> \o SplitWhitespace(lines[j + 1])[1]) > max_width
    /\ pc = "image_draw" =>
          \A j \in 1..(Len(lines) - 1) :
              Measure(lines[j] \o <<SP>> \o SplitSpace(lines[j + 1])[1]) > max_width

C19_Witness ==
    /\ pc \in {"tts", "image_draw"}
    /\ Len(lines) >= 2
    /\ Len(SplitWhitespace(lines[1])) >= 2
    /\ Measure(lines[1]) <= max_width

\* C20: with at least one page, the clip durations handed to the
\* concatenation sum to at least audio_duration - 0.001 s.
C20_VideoCoversAudio ==
    (pc \in {"concat", "done", "ConcatError"} /\ Len(pages) >= 1)
        => SumSeq(clips) >= (audio_duration - EPSILON) * den

C20_Witness ==
    /\ pc = "done"
    /\ audio_duration > 0
    /\ SumSeq(clips) = audio_duration * den
    /\ SumSeq(entry_durations) < audio_duration

\* C12: in every interleaving of two concurrent calls, each call loads and
\* uploads only the narration and background made for itself, and never
\* reads a file or blob written by the other call.
C12_Independence ==
    \A c \in Calls :
        /\ audio_used[c] \in {0, c}
        /\ bg_used[c] \in {0, c}
        /\ uploaded[c] \in {NoVideo, [audio |-> c, bg |-> c]}
        /\ cpc[c] # "FileNotFoundError"

\* the model's answer for source s holds text that is not only whitespace
Yields(s) == responses[s].kind = "text" /\ Strip(responses[s].text) # <<>>

\* C13: get_dynamic_fact calls the model for the sources in the shuffled
\* order, each at most once, stops at the first source with non-empty text
\* and returns that text with the label A or B of the source; it returns
\* the fallback fact with label Z exactly when no source gave text, raising
\* sources included.
C13_DynamicFact ==
    /\ Len(tried) <= Len(sources)
    /\ tried = SubSeq(sources, 1, Len(tried))
    /\ fpc = "returned" =>
          IF \E j \in 1..Len(sources) : Yields(sources[j])
          THEN LET first == CHOOSE j \in 1..Len(sources) :
                                /\ Yields(sources[j])
                                /\ \A h \in 1..(j - 1) : ~Yields(sources[h])
               IN /\ Len(tried) = first
                  /\ fact_result.fact = Strip(responses[sources[first]].text)
                  /\ fact_result.label = (IF sources[first] = 1 THEN "A" ELSE "B")
          ELSE /\ Len(tried) = Len(sources)
               /\ fact_result = [fact |-> Honey(generator), label |-> "Z"]

C13_Witness ==
    /\ fpc = "returned"
    /\ sources = <<2, 1>>
    /\ responses[2].kind = "raise"
    /\ responses[1].text = <<SP, "a", NL>>
    /\ fact_result = [fact |-> <<"a">>, label |-> "A"]

\* C14 as stated: is_duplicate_fact returns True exactly when the
\* normalized fact is in the seen set the call found, or too similar to one
\* of its entries; a call that returns True leaves the seen set and the
\* Firestore history as it found them, a call that returns False has added
\* the normalized fact to the seen set.
C14_SeenSetAsFound ==
    ret # "none" =>
        /\ ret = "True" <=>
              \/ normalize_fact(fact) \in seen_before
              \/ \E e \in seen_before : TooSimilar(normalize_fact(fact), e)
        /\ ret = "True" => seen_facts = seen_before /\ facts_history = history_before
        /\ ret = "False" => normalize_fact(fact) \in seen_facts

\* C14 amended: the same with the seen set as it is after the call's
\* one-time load of the Firestore history (main.py:149), which a call that
\* returns True then leaves unchanged, as it leaves the history.
C14_SeenSetAsLoaded ==
    ret # "none" =>
        /\ ret = "True" <=>
              \/ normalize_fact(fact) \in seen_loaded
              \/ \E e \in seen_loaded : TooSimilar(normalize_fact(fact), e)
        /\ ret = "True" => seen_facts = seen_loaded /\ facts_history = history_before
        /\ ret = "False" => normalize_fact(fact) \in seen_facts
        /\ seen_before \subseteq seen_loaded
        /\ (seen_loaded # seen_before) => read_calls = <<load_calls>>

C14_Witness ==
    /\ ret = "True"
    /\ seen_loaded # seen_before
    /\ normalize_fact(fact) \notin seen_loaded
    /\ fact = <<"a", "a", SP, "a", "a", "b">>

\* C15: whatever the calls and however the first read ended, the first call
\* of load_seen_facts_from_firestore is the only one that reads the
\* collection.
C15_ReadOnce ==
    read_calls = IF load_calls = 0 THEN <<>> ELSE <<1>>

C15_Witness ==
    /\ load_calls >= 2
    /\ read_calls = <<1>>
    /\ read_outcome = "raise"

\* C21: whatever the number of fragments, once the fragments are parsed
\* per_page_durations and aeneas_starts hold one entry per page and keep
\* that length; a page within the fragments takes its timing from the
\* fragment of the same position, so later fragments are not used, and a
\* page beyond them gets 1.0 s and the sum of the earlier durations.
C21_OneEntryPerPage ==
    /\ pc \in {"correct", "trim", "clips", "safety", "concat", "done"}
           => /\ Len(per_page_durations) = Len(pages)
              /\ Len(aeneas_starts) = Len(pages)
    /\ (pc = "parse" /\ i > Len(pages))
           => /\ Len(per_page_durations) = Len(pages)
              /\ Len(aeneas_starts) = Len(pages)
              /\ \A j \in 1..Len(pages) :
                     IF j <= Len(segments)
                     THEN /\ aeneas_starts[j] = segments[j].begin
                          /\ per_page_durations[j]
                                 = Max(50, segments[j].end - segments[j].begin)
                     ELSE /\ per_page_durations[j] = 1000
                          /\ aeneas_starts[j]
                                 = SumSeq(SubSeq(per_page_durations, 1, j - 1))

C21_Witness ==
    /\ pc = "parse"
    /\ i > Len(pages)
    /\ Len(pages) >= 2
    /\ Len(segments) > Len(pages)
    /\ segments[Len(segments)].begin # segments[Len(pages)].begin

\* C23: within one runtime is_duplicate_fact reports a normalized form as
\* new at most once: a call with a fact whose normalized form was reported
\* new before returns True.
C23_NewAtMostOnce ==
    \A j \in 1..Len(reported) : \A h \in 1..Len(reported) :
        j # h => reported[j] # reported[h]

C23_Witness ==
    /\ ret = "True"
    /\ fact = <<"A", SP, "b", ".">>
    /\ reported = <<<<"a", SP, "b">>>>
    /\ facts_history = <<>>
    /\ seen_facts = {<<"a", SP, "b">>}

\* C22: get_unique_fact returns a (fact, source_code) pair of its generator
\* after at most 5 checked generation attempts followed by at most 1
\* unchecked one, at most 6 generator calls in all, even when every checked
\* attempt was a duplicate.
C22_AlwaysReturns ==
    <>(/\ upc = "returned"
       /\ unique_result \in Generated(ytdest)
       /\ checked_attempts <= 5
       /\ generator_calls <= checked_attempts + 1
       /\ generator_calls <= 6)

C22_Witness ==
    /\ upc = "returned"
    /\ generator_calls = 6
    /\ checked_attempts = 5
    /\ reported = <<>>

\* C26: a call of get_unique_fact in which no Firestore add raised leaves
\* the collection with exactly one more document than it found, the
\* document of the fact it returns.
C26_RecordedOnce ==
    (upc = "returned" /\ ~add_failed)
        => facts_history = Append(history_at_entry, Doc(unique_result.fact))

\* C24: generate_gemini_tech_image calls the image model at most
\* max_retries times; it returns the path of the attempt that saved an
\* image, which is the first such attempt and the last one made; it ends
\* with RuntimeError exactly when max_retries attempts were made and none
\* saved an image.
C24_BoundedRetry ==
    LET made == Len(image_outcomes)
        all_failed == \A j \in 1..made : image_outcomes[j] # "image"
    IN /\ made <= max_retries
       /\ ipc = "returned"
              => /\ made >= 1
                 /\ image_outcomes[made] = "image"
                 /\ \A j \in 1..(made - 1) : image_outcomes[j] # "image"
                 /\ bg_path = made
       /\ ipc = "RuntimeError" => made = max_retries /\ all_failed
       /\ (ipc \in {"returned", "RuntimeError"} /\ made = max_retries /\ all_failed)
              => ipc = "RuntimeError"
       /\ ipc = "loop" => all_failed /\ img_attempt = made + 1

C24_Witness ==
    /\ ipc = "returned"
    /\ max_retries = 3
    /\ image_outcomes = <<"raise", "no_images", "image">>

\* C25: a step of the tech pipeline that raises ends the request with
\* code 500 and status error before the kk pipeline is started; a step of
\* the kk pipeline that raises leads to a response with status ok that
\* carries the tech result as the tech pipeline produced it and the error
\* as qq.
C25_PipelineIsolation ==
    /\ failed_in = "tech"
           => /\ ~kk_started
              /\ epc = "responded"
              /\ http_response.code = 500
              /\ http_response.status = "error"
    /\ failed_in = "kk"
           => /\ epc \in {"respond", "responded"}
              /\ DOMAIN qq_result = {"error"}
              /\ main_result = tech_result
              /\ epc = "responded"
                     => /\ http_response.status = "ok"
                        /\ http_response.main = tech_result
                        /\ http_response.main.video_gcs = "output_tech.mp4"
                        /\ http_response.qq = qq_result

C25_Witness ==
    /\ failed_in = "kk"
    /\ epc = "responded"
    /\ qq_result = [error |-> "upload"]
    /\ tech_result = [fact |-> "f2", video_gcs |-> "output_tech.mp4",
                      youtube_video_id |-> "id1"]

=============================================================================
